---- MODULE Spec2Model ----
(***************************************************************************)
(* Model of src/async_buffer.rs (wgpu-async): AsyncBuffer, AsyncBufferSlice *)
(* and the scoped views AsyncBufferView / AsyncBufferViewMut.               *)
(*                                                                         *)
(* One buffer of BufSize bytes is wrapped by one AsyncBuffer.  Every task   *)
(* of Tasks is one mapping operation: it takes a slice, awaits map_async    *)
(* or map_async_mut on it, and, when that resolves to Ok, holds the view    *)
(* until its scope exits.  The device (wgpu::Buffer behind the bridge       *)
(* AsyncDevice::do_async) is an external collaborator: it keeps the         *)
(* mapping state of the buffer and fires the completion callbacks.          *)
(***************************************************************************)
EXTENDS Integers, Sequences, FiniteSets, TLC

\* ------------------------------------------------------------------ bounds
NTasks == 2
BufSize == 1024

Tasks == 1..NTasks

\* The in-range ranges [start, end) callers slice: a prefix, a range inside the
\* buffer that is disjoint from the prefix, and the whole buffer.
Ranges == {<<0, BufSize \div 4>>, <<BufSize \div 4, BufSize \div 2>>, <<0, BufSize>>}

NoRange == <<0, 0>>

RangeLen(r) == r[2] - r[1]

Modes == {"Read", "Write"}

\* The two mapping entry points of AsyncBufferSlice (and of AsyncBuffer).
Entries == {"map_async", "map_async_mut"}

\* Causes the device reports through the completion callback.
Causes == {"AlreadyMapped", "DeviceLost"}

\* The ways the scope that owns a view can exit.
ExitKinds == {"normal", "early_return", "unwind"}

\* The contents a byte of the buffer is given: as created, and 0xFF.
ByteVals == {0, 255}

\* What a caller asked for: the bounds, the entry point, and whether it went
\* through AsyncBuffer::slice or through AsyncBuffer::map_async(_mut).
NoAsk == [range |-> NoRange, entry |-> "none", via |-> "none"]

Asks ==
    [range : Ranges \cup {NoRange}, entry : Entries \cup {"none"},
     via : {"none", "slice", "buffer"}]

NoView == [kind |-> "none", range |-> NoRange, inner |-> "none"]

VARIABLES
    pc,         \* position of each task in its mapping operation
    range,      \* the range of the task's AsyncBufferSlice, while it exists
    entry,      \* the entry point the task awaits, while its future exists
    cb,         \* the task's completion callback: none / registered / fired
    outcome,    \* what the device passed to the callback
    result,     \* what the awaited map_async resolved to
    view,       \* the AsyncBufferView(Mut) of the task, while it exists
    lastExit,   \* how the scope whose view was dropped last exited
    innerDrops, \* finalizations of the view's wgpu::BufferView
    unmaps,     \* unmap calls issued by the view's Drop
    regState,   \* the buffer's mapping state when the request was registered
    overlap,    \* whether the request was ever in flight beside a live view
    nativeUsed, \* whether wgpu::Buffer::unmap was called through the handle
    regs,       \* callbacks the task's operation registered with the bridge
    holders,    \* holders of the shared AsyncDevice handle
    bufAlive,   \* whether the AsyncBuffer value still exists
    bytes,      \* the content of the buffer's bytes
    snap,       \* the content when the task's view was constructed (-1: no view)
    seen,       \* the content last read through a view
    asked,      \* the arguments the caller gave, and the entry path taken
    devState,   \* the buffer's mapping state: Unmapped / Pending / Mapped
    devReq,     \* the task whose request the device holds (0: none)
    devMode     \* the mode of the request the device holds

vars == <<pc, range, entry, cb, outcome, result, view, lastExit, innerDrops,
          unmaps, regState, overlap, nativeUsed, devState, devReq, devMode,
          regs,
          holders,
          bufAlive,
          bytes,
          snap,
          seen,
          asked>>

taskVars == <<pc, range, entry, result, view, lastExit, innerDrops, unmaps>>

devVars == <<devState, devReq, devMode>>

\* ------------------------------------------------------------------ device

\* Mutant: the slice uses the buffer's handle without a clone of its own.
ShareDevice(n) == n

\* self.device.clone(): one more holder of the reference-counted handle.
CloneDevice(n) == n + 1

\* A holder of the handle is dropped.
ReleaseDevice(n) == n - 1

\* do_async: the registration keeps a reference of its own until the callback
\* fires.
RegistrationHolds(n) == n + 1

\* wgpu::BufferSlice::map_async(mode, callback) on the device: a request on an
\* Unmapped buffer is accepted and makes it Pending; any other is rejected and
\* its callback will report AlreadyMapped.
DevAccepts == devState = "Unmapped"

\* A view is live from its construction to the start of its Drop.
Live(t) == view[t].inner = "live"

DevMapAsync(t, m) ==
    /\ cb' = [cb EXCEPT ![t] = "registered"]
    /\ regs' = [regs EXCEPT ![t] = @ + 1]
    /\ regState' = [regState EXCEPT ![t] = devState]
    /\ overlap' = [overlap EXCEPT ![t] = \E u \in Tasks \ {t} : Live(u)]
    /\ UNCHANGED nativeUsed
    /\ IF DevAccepts
         THEN /\ devState' = "Pending"
              /\ devReq' = t
              /\ devMode' = m
         ELSE UNCHANGED devVars

\* wgpu::Buffer::unmap on the device: the mapping ends.
DevUnmap ==
    /\ devState' = "Unmapped"
    /\ devReq' = 0
    /\ devMode' = "None"

\* The outcomes the device can pass to the callback of task t.
DevOutcomes(t) ==
    IF devReq = t /\ devState = "Pending"
      THEN {"Ok", "DeviceLost"}
      ELSE {"AlreadyMapped"}

\* The device's polling fires the registered callback of task t.
DevicePoll(t, o) ==
    /\ cb[t] = "registered"
    /\ o \in DevOutcomes(t)
    /\ cb' = [cb EXCEPT ![t] = "fired"]
    /\ outcome' = [outcome EXCEPT ![t] = o]
    /\ IF devReq = t /\ devState = "Pending"
         THEN IF o = "Ok"
                THEN /\ devState' = "Mapped"
                     /\ UNCHANGED <<devReq, devMode>>
                ELSE /\ devState' = "Unmapped"
                     /\ devReq' = 0
                     /\ devMode' = "None"
         ELSE UNCHANGED devVars
    /\ UNCHANGED <<taskVars, regState, overlap, nativeUsed>>
    /\ UNCHANGED regs
    /\ holders' = ReleaseDevice(holders)
    /\ UNCHANGED <<bufAlive, bytes, snap, seen>>
    /\ asked' = [asked EXCEPT ![t].via = "none"]

\* -------------------------------------------------------------- AsyncBuffer

\* Tasks are named in the order in which they start.
MayStart(t) ==
    /\ bufAlive
    /\ pc[t] = "idle"
    /\ IF t = 1 THEN TRUE ELSE pc[t - 1] # "idle"

\* AsyncBuffer::slice: wraps buffer.slice(bounds); nothing reaches the device.
SliceOf(r) == r

\* Mutant: slice submits the mapping request to the device at once.
SliceEager(t, r) ==
    /\ MayStart(t)
    /\ pc' = [pc EXCEPT ![t] = "sliced"]
    /\ range' = [range EXCEPT ![t] = SliceOf(r)]
    /\ DevMapAsync(t, "Read")
    /\ UNCHANGED <<entry, outcome, result, view, lastExit, innerDrops, unmaps>>
    /\ holders' = CloneDevice(holders)
    /\ UNCHANGED <<bufAlive, bytes, snap, seen>>
    /\ asked' = [asked EXCEPT ![t] = [range |-> r, entry |-> "none", via |-> "slice"]]

\* AsyncBuffer::slice: the descriptor holds the slice and a clone of the device.
Slice(t, r) ==
    /\ MayStart(t)
    /\ pc' = [pc EXCEPT ![t] = "sliced"]
    /\ range' = [range EXCEPT ![t] = SliceOf(r)]
    /\ UNCHANGED <<entry, cb, outcome, result, view, lastExit, innerDrops,
                   unmaps, regState, overlap, nativeUsed, devVars>>
    /\ UNCHANGED regs
    /\ holders' = CloneDevice(holders)
    /\ UNCHANGED <<bufAlive, bytes, snap, seen>>
    /\ asked' = [asked EXCEPT ![t] = [range |-> r, entry |-> "none", via |-> "slice"]]

\* Mutant: both entry points request the mapping in read mode.
ModeOfRead(e) == "Read"

\* The wgpu::MapMode each entry point passes to BufferSlice::map_async.
ModeOf(e) == IF e = "map_async" THEN "Read" ELSE "Write"

\* AsyncBufferSlice::map_async / map_async_mut up to the await: do_async calls
\* the closure, which registers the callback with the device.
MapAsync(t, e) ==
    /\ pc[t] = "sliced"
    /\ pc' = [pc EXCEPT ![t] = "awaiting"]
    /\ entry' = [entry EXCEPT ![t] = e]
    /\ DevMapAsync(t, ModeOf(e))
    /\ UNCHANGED <<range, outcome, result, view, lastExit, innerDrops, unmaps>>
    /\ holders' = RegistrationHolds(holders)
    /\ UNCHANGED <<bufAlive, bytes, snap, seen>>
    /\ asked' = [asked EXCEPT ![t].entry = e]

\* Mutant: AsyncBuffer::map_async ignores the bounds and maps the whole buffer.
BufMapAsyncUnbounded(t, r, e) ==
    /\ MayStart(t)
    /\ pc' = [pc EXCEPT ![t] = "awaiting"]
    /\ range' = [range EXCEPT ![t] = SliceOf(<<0, BufSize>>)]
    /\ entry' = [entry EXCEPT ![t] = e]
    /\ DevMapAsync(t, ModeOf(e))
    /\ UNCHANGED <<outcome, result, view, lastExit, innerDrops, unmaps>>
    /\ holders' = RegistrationHolds(CloneDevice(holders))
    /\ UNCHANGED <<bufAlive, bytes, snap, seen>>
    /\ asked' = [asked EXCEPT ![t] = [range |-> r, entry |-> e, via |-> "buffer"]]

\* AsyncBuffer::map_async / map_async_mut: slice, then the slice's map_async.
BufMapAsync(t, r, e) ==
    /\ MayStart(t)
    /\ pc' = [pc EXCEPT ![t] = "awaiting"]
    /\ range' = [range EXCEPT ![t] = SliceOf(r)]
    /\ entry' = [entry EXCEPT ![t] = e]
    /\ DevMapAsync(t, ModeOf(e))
    /\ UNCHANGED <<outcome, result, view, lastExit, innerDrops, unmaps>>
    /\ holders' = RegistrationHolds(CloneDevice(holders))
    /\ UNCHANGED <<bufAlive, bytes, snap, seen>>
    /\ asked' = [asked EXCEPT ![t] = [range |-> r, entry |-> e, via |-> "buffer"]]

\* ------------------------------------------------------------------- views

\* The view type each entry point constructs.
ViewKind(e) == IF e = "map_async" THEN "View" ELSE "ViewMut"

\* Mutant: the view takes the mapped range of the whole buffer.
NewViewWholeBuffer(t) ==
    [kind |-> ViewKind(entry[t]), range |-> <<0, BufSize>>, inner |-> "live"]

\* AsyncBufferView::new / AsyncBufferViewMut::new: get_mapped_range of the
\* slice, and a reference to the slice's buffer.
NewView(t) == [kind |-> ViewKind(entry[t]), range |-> range[t], inner |-> "live"]

\* Mutant: every failure is reported as one generic cause.
PropagateGeneric(o) == "DeviceLost"

\* What `.await?` returns early with: the device-reported cause, unchanged.
Propagate(o) == o

\* Mutant: the result of the await is ignored.
ProceedsAlways(o) == TRUE

\* Whether `?` lets the function go on to construct the view.
Proceeds(o) == o = "Ok"

\* The requests in flight: registered, and their future not yet ended.
InFlight(t) == pc[t] = "awaiting"

\* Mutant: the view is constructed without awaiting the callback.
ResumeNoAwait(t) ==
    /\ pc[t] = "awaiting"
    /\ pc' = [pc EXCEPT ![t] = "view"]
    /\ result' = [result EXCEPT ![t] = "Ok"]
    /\ view' = [view EXCEPT ![t] = NewView(t)]
    /\ overlap' = [u \in Tasks |->
           IF u # t /\ InFlight(u) THEN TRUE ELSE overlap[u]]
    /\ range' = [range EXCEPT ![t] = NoRange]
    /\ entry' = [entry EXCEPT ![t] = "none"]
    /\ UNCHANGED <<cb, outcome, lastExit, innerDrops, unmaps, regState,
                   nativeUsed, devVars>>
    /\ UNCHANGED regs
    /\ holders' = ReleaseDevice(holders)
    /\ UNCHANGED <<bufAlive, bytes>>
    /\ snap' = [snap EXCEPT ![t] = bytes]
    /\ UNCHANGED seen
    /\ asked' = [asked EXCEPT ![t] = NoAsk]

\* Mutant: the error path unmaps the buffer before it returns.
ResumeUnmapOnErr(t) ==
    /\ pc[t] = "awaiting"
    /\ cb[t] = "fired"
    /\ IF ~Proceeds(outcome[t])
         THEN /\ pc' = [pc EXCEPT ![t] = "failed"]
              /\ result' = [result EXCEPT ![t] = Propagate(outcome[t])]
              /\ DevUnmap
              /\ UNCHANGED <<view, overlap>>
         ELSE /\ devState = "Mapped"
              /\ pc' = [pc EXCEPT ![t] = "view"]
              /\ result' = [result EXCEPT ![t] = "Ok"]
              /\ view' = [view EXCEPT ![t] = NewView(t)]
              /\ overlap' = [u \in Tasks |->
                     IF u # t /\ InFlight(u) THEN TRUE ELSE overlap[u]]
              /\ UNCHANGED devVars
    /\ range' = [range EXCEPT ![t] = NoRange]
    /\ entry' = [entry EXCEPT ![t] = "none"]
    /\ UNCHANGED <<cb, outcome, lastExit, innerDrops, unmaps, regState,
                   nativeUsed>>
    /\ UNCHANGED regs
    /\ holders' = ReleaseDevice(holders)
    /\ UNCHANGED <<bufAlive, bytes>>
    /\ snap' = [snap EXCEPT ![t] = IF Proceeds(outcome[t]) THEN bytes ELSE @]
    /\ UNCHANGED seen
    /\ asked' = [asked EXCEPT ![t] = NoAsk]

\* Mutant: a failed request is submitted again instead of being returned.
ResumeRetries(t) ==
    /\ pc[t] = "awaiting"
    /\ cb[t] = "fired"
    /\ IF ~Proceeds(outcome[t])
         THEN /\ DevMapAsync(t, ModeOf(entry[t]))
              /\ UNCHANGED <<pc, result, view, range, entry>>
         ELSE /\ devState = "Mapped"
              /\ pc' = [pc EXCEPT ![t] = "view"]
              /\ result' = [result EXCEPT ![t] = "Ok"]
              /\ view' = [view EXCEPT ![t] = NewView(t)]
              /\ overlap' = [u \in Tasks |->
                     IF u # t /\ InFlight(u) THEN TRUE ELSE overlap[u]]
              /\ range' = [range EXCEPT ![t] = NoRange]
              /\ entry' = [entry EXCEPT ![t] = "none"]
              /\ UNCHANGED <<cb, regState, nativeUsed, devVars, regs>>
    /\ UNCHANGED <<outcome, lastExit, innerDrops, unmaps>>
    /\ holders' = IF Proceeds(outcome[t]) THEN ReleaseDevice(holders)
                                        ELSE RegistrationHolds(holders)
    /\ UNCHANGED <<bufAlive, bytes>>
    /\ snap' = [snap EXCEPT ![t] = IF Proceeds(outcome[t]) THEN bytes ELSE @]
    /\ UNCHANGED seen
    /\ asked' = [asked EXCEPT ![t] = IF Proceeds(outcome[t]) THEN NoAsk ELSE @]

\* Mutant: a callback that reports an error does not wake the task.
ResumeOnlyOnOk(t) ==
    /\ Proceeds(outcome[t])
    /\ pc[t] = "awaiting"
    /\ cb[t] = "fired"
    /\ IF ~Proceeds(outcome[t])
         THEN /\ pc' = [pc EXCEPT ![t] = "failed"]
              /\ result' = [result EXCEPT ![t] = Propagate(outcome[t])]
              /\ UNCHANGED <<view, overlap>>
         ELSE IF devState = "Mapped"
                THEN /\ pc' = [pc EXCEPT ![t] = "view"]
                     /\ result' = [result EXCEPT ![t] = "Ok"]
                     /\ view' = [view EXCEPT ![t] = NewView(t)]
                     /\ overlap' = [u \in Tasks |->
                            IF u # t /\ InFlight(u) THEN TRUE ELSE overlap[u]]
                ELSE /\ pc' = [pc EXCEPT ![t] = "panicked"]
                     /\ UNCHANGED <<result, view, overlap>>
    /\ range' = [range EXCEPT ![t] = NoRange]
    /\ entry' = [entry EXCEPT ![t] = "none"]
    /\ UNCHANGED <<cb, outcome, lastExit, innerDrops, unmaps, regState,
                   nativeUsed, devVars>>
    /\ UNCHANGED regs
    /\ holders' = ReleaseDevice(holders)
    /\ UNCHANGED <<bufAlive, bytes>>
    /\ snap' = [snap EXCEPT ![t] =
                 IF Proceeds(outcome[t]) /\ devState = "Mapped" THEN bytes ELSE @]
    /\ UNCHANGED seen
    /\ asked' = [asked EXCEPT ![t] = NoAsk]

\* The task is polled after its callback fired: `?` returns the error, or the
\* view is constructed.  get_mapped_range panics on a buffer that is not
\* mapped.  The future ends either way, and the slice it owns with it.
Resume(t) ==
    /\ pc[t] = "awaiting"
    /\ cb[t] = "fired"
    /\ IF ~Proceeds(outcome[t])
         THEN /\ pc' = [pc EXCEPT ![t] = "failed"]
              /\ result' = [result EXCEPT ![t] = Propagate(outcome[t])]
              /\ UNCHANGED <<view, overlap>>
         ELSE IF devState = "Mapped"
                THEN /\ pc' = [pc EXCEPT ![t] = "view"]
                     /\ result' = [result EXCEPT ![t] = "Ok"]
                     /\ view' = [view EXCEPT ![t] = NewView(t)]
                     /\ overlap' = [u \in Tasks |->
                            IF u # t /\ InFlight(u) THEN TRUE ELSE overlap[u]]
                ELSE /\ pc' = [pc EXCEPT ![t] = "panicked"]
                     /\ UNCHANGED <<result, view, overlap>>
    /\ range' = [range EXCEPT ![t] = NoRange]
    /\ entry' = [entry EXCEPT ![t] = "none"]
    /\ UNCHANGED <<cb, outcome, lastExit, innerDrops, unmaps, regState,
                   nativeUsed, devVars>>
    /\ UNCHANGED regs
    /\ holders' = ReleaseDevice(holders)
    /\ UNCHANGED <<bufAlive, bytes>>
    /\ snap' = [snap EXCEPT ![t] =
                 IF Proceeds(outcome[t]) /\ devState = "Mapped" THEN bytes ELSE @]
    /\ UNCHANGED seen
    /\ asked' = [asked EXCEPT ![t] = NoAsk]

\* Mutant: dropping the future unmaps the buffer to cancel the request.
AbandonUnmaps(t) ==
    /\ pc[t] = "awaiting"
    /\ pc' = [pc EXCEPT ![t] = IF cb[t] = "fired" THEN "discarded" ELSE "abandoned"]
    /\ range' = [range EXCEPT ![t] = NoRange]
    /\ entry' = [entry EXCEPT ![t] = "none"]
    /\ unmaps' = [unmaps EXCEPT ![t] = @ + 1]
    /\ DevUnmap
    /\ UNCHANGED <<cb, outcome, result, view, lastExit, innerDrops,
                   regState, overlap, nativeUsed>>
    /\ UNCHANGED regs
    /\ holders' = ReleaseDevice(holders)
    /\ UNCHANGED <<bufAlive, bytes, snap, seen>>
    /\ asked' = [asked EXCEPT ![t] = NoAsk]

\* The future of map_async is dropped while it awaits: the slice goes with it,
\* the request stays with the device.  "abandoned": dropped before the callback
\* fired; "discarded": dropped after it fired, before the task was polled.
Abandon(t) ==
    /\ pc[t] = "awaiting"
    /\ pc' = [pc EXCEPT ![t] = IF cb[t] = "fired" THEN "discarded" ELSE "abandoned"]
    /\ range' = [range EXCEPT ![t] = NoRange]
    /\ entry' = [entry EXCEPT ![t] = "none"]
    /\ UNCHANGED <<cb, outcome, result, view, lastExit, innerDrops, unmaps,
                   regState, overlap, nativeUsed, devVars>>
    /\ UNCHANGED regs
    /\ holders' = ReleaseDevice(holders)
    /\ UNCHANGED <<bufAlive, bytes, snap, seen>>
    /\ asked' = [asked EXCEPT ![t] = NoAsk]

\* Mutant: Drop unmaps first and finalizes the inner handle afterwards.
DropInnerAfterUnmap(t, k) ==
    /\ pc[t] = "view"
    /\ pc' = [pc EXCEPT ![t] = "dropping"]
    /\ lastExit' = k
    /\ DevUnmap
    /\ UNCHANGED <<range, entry, cb, outcome, result, view, innerDrops, unmaps,
                   regState, overlap, nativeUsed>>
    /\ UNCHANGED <<regs, holders, bufAlive, bytes, snap, seen, asked>>

\* Drop::drop, first statement: ManuallyDrop::drop(&mut self.buffer_view).
\* The scope that owns the view exits in one of ExitKinds.
DropInner(t, k) ==
    /\ pc[t] = "view"
    /\ pc' = [pc EXCEPT ![t] = "dropping"]
    /\ lastExit' = k
    /\ view' = [view EXCEPT ![t].inner = "finalized"]
    /\ innerDrops' = [innerDrops EXCEPT ![t] = @ + 1]
    /\ UNCHANGED <<range, entry, cb, outcome, result, unmaps, regState, overlap,
                   nativeUsed, devVars>>
    /\ UNCHANGED <<regs, holders, bufAlive, bytes, snap, seen, asked>>

\* Mutant: the field is a plain BufferView, which the glue drops again.
GlueDropsPlainField(n) == n + 1

\* The drop glue that runs after Drop::drop: a ManuallyDrop field is skipped,
\* so the count n of finalizations of the inner handle stays.
GlueDrops(n) == n

\* Mutant: the unmap is skipped when the scope exits by unwinding.
DropUnmapNotOnUnwind(t) ==
    /\ pc[t] = "dropping"
    /\ pc' = [pc EXCEPT ![t] = "dropped"]
    /\ innerDrops' = [innerDrops EXCEPT ![t] = GlueDrops(@)]
    /\ view' = [view EXCEPT ![t] = NoView]
    /\ IF lastExit = "unwind"
         THEN UNCHANGED <<unmaps, devVars>>
         ELSE /\ unmaps' = [unmaps EXCEPT ![t] = @ + 1]
              /\ DevUnmap
    /\ UNCHANGED <<range, entry, cb, outcome, result, lastExit, regState,
                   overlap, nativeUsed>>
    /\ UNCHANGED <<regs, holders, bufAlive, bytes>>
    /\ snap' = [snap EXCEPT ![t] = -1]
    /\ UNCHANGED <<seen, asked>>

\* Mutant: Drop finalizes the inner handle and never unmaps.
DropUnmapForgotten(t) ==
    /\ pc[t] = "dropping"
    /\ pc' = [pc EXCEPT ![t] = "dropped"]
    /\ innerDrops' = [innerDrops EXCEPT ![t] = GlueDrops(@)]
    /\ view' = [view EXCEPT ![t] = NoView]
    /\ UNCHANGED <<range, entry, cb, outcome, result, lastExit, regState,
                   overlap, nativeUsed, unmaps, devVars>>
    /\ UNCHANGED <<regs, holders, bufAlive, bytes>>
    /\ snap' = [snap EXCEPT ![t] = -1]
    /\ UNCHANGED <<seen, asked>>

\* Drop::drop, second statement: self.buffer.unmap(); then the drop glue, and
\* the view is gone.
DropUnmap(t) ==
    /\ pc[t] = "dropping"
    /\ pc' = [pc EXCEPT ![t] = "dropped"]
    /\ unmaps' = [unmaps EXCEPT ![t] = @ + 1]
    /\ innerDrops' = [innerDrops EXCEPT ![t] = GlueDrops(@)]
    /\ view' = [view EXCEPT ![t] = NoView]
    /\ DevUnmap
    /\ UNCHANGED <<range, entry, cb, outcome, result, lastExit, regState,
                   overlap, nativeUsed>>
    /\ UNCHANGED <<regs, holders, bufAlive, bytes>>
    /\ snap' = [snap EXCEPT ![t] = -1]
    /\ UNCHANGED <<seen, asked>>

\* Deref for AsyncBufferView and AsyncBufferViewMut: the bytes are read.
ReadView(t) ==
    /\ Live(t)
    /\ seen' = bytes
    /\ UNCHANGED <<taskVars, cb, outcome, regState, overlap, nativeUsed,
                   devVars, regs, holders, bufAlive, bytes, snap,
                   asked>>

\* Mutant: AsyncBufferView implements DerefMut as well.
CanWriteAny(kind) == TRUE

\* DerefMut is implemented for AsyncBufferViewMut alone.
CanWrite(kind) == kind = "ViewMut"

\* DerefMut for AsyncBufferViewMut: the bytes are written.
WriteView(t, v) ==
    /\ Live(t)
    /\ CanWrite(view[t].kind)
    /\ bytes' = v
    /\ UNCHANGED <<taskVars, cb, outcome, regState, overlap, nativeUsed,
                   devVars, regs, holders, bufAlive, snap, seen,
                   asked>>

\* Deref for AsyncBuffer: wgpu::Buffer::unmap called on the handle itself.
NativeUnmap ==
    /\ devState = "Mapped"
    /\ DevUnmap
    /\ nativeUsed' = TRUE
    /\ UNCHANGED <<taskVars, cb, outcome, regState, overlap>>
    /\ UNCHANGED <<regs, holders, bufAlive, bytes, snap, seen, asked>>

\* The slices, futures and views borrow the AsyncBuffer.
Borrowed == \E t \in Tasks : pc[t] \in {"sliced", "awaiting", "view", "dropping"}

\* The caller drops the AsyncBuffer value: its handle to the device goes; a
\* request the device still holds is not revoked.
DropBuffer ==
    /\ bufAlive
    /\ ~Borrowed
    /\ bufAlive' = FALSE
    /\ holders' = ReleaseDevice(holders)
    /\ UNCHANGED <<taskVars, cb, outcome, regState, overlap, nativeUsed,
                   devVars, regs, bytes, snap, seen, asked>>
    /\ UNCHANGED <<bytes, snap, seen>>

\* ------------------------------------------------------------ specification

Init ==
    /\ pc = [t \in Tasks |-> "idle"]
    /\ range = [t \in Tasks |-> NoRange]
    /\ entry = [t \in Tasks |-> "none"]
    /\ cb = [t \in Tasks |-> "none"]
    /\ outcome = [t \in Tasks |-> "none"]
    /\ result = [t \in Tasks |-> "none"]
    /\ view = [t \in Tasks |-> NoView]
    /\ lastExit = "none"
    /\ innerDrops = [t \in Tasks |-> 0]
    /\ unmaps = [t \in Tasks |-> 0]
    /\ regState = [t \in Tasks |-> "none"]
    /\ overlap = [t \in Tasks |-> FALSE]
    /\ nativeUsed = FALSE
    /\ devState = "Unmapped"
    /\ devReq = 0
    /\ devMode = "None"
    /\ regs = [t \in Tasks |-> 0]
    /\ holders = 1
    /\ bufAlive = TRUE
    /\ bytes = 0
    /\ snap = [t \in Tasks |-> -1]
    /\ seen = 0
    /\ asked = [t \in Tasks |-> NoAsk]

Next ==
    \/ \E t \in Tasks, r \in Ranges : Slice(t, r)
    \/ \E t \in Tasks, e \in Entries : MapAsync(t, e)
    \/ \E t \in Tasks, r \in Ranges, e \in Entries : BufMapAsync(t, r, e)
    \/ \E t \in Tasks, o \in {"Ok"} \cup Causes : DevicePoll(t, o)
    \/ \E t \in Tasks : Resume(t)
    \/ \E t \in Tasks : Abandon(t)
    \/ \E t \in Tasks, k \in ExitKinds : DropInner(t, k)
    \/ \E t \in Tasks : DropUnmap(t)

Spec == Init /\ [][Next]_vars

\* The same, with the native operations the handle forwards to.
NextNative == Next \/ NativeUnmap

SpecNative == Init /\ [][NextNative]_vars

\* The layer's operations, and the AsyncBuffer going out of scope.
NextLifetime == Next \/ DropBuffer

SpecLifetime == Init /\ [][NextLifetime]_vars

\* The layer's operations, and the accesses to the bytes through the views.
NextBytes ==
    \/ Next
    \/ \E t \in Tasks : ReadView(t)
    \/ \E t \in Tasks, v \in ByteVals : WriteView(t, v)

SpecBytes == Init /\ [][NextBytes]_vars

\* The layer under the scheduling its contract assumes: the device invokes
\* every registered callback, a woken task is polled unless its future is
\* dropped first, and a view that exists is dropped, its Drop running to the end.
Fairness ==
    \A t \in Tasks :
        /\ WF_vars(\E o \in {"Ok"} \cup Causes : DevicePoll(t, o))
        /\ WF_vars(Resume(t))
        /\ WF_vars(\E k \in ExitKinds : DropInner(t, k))
        /\ WF_vars(DropUnmap(t))

FairSpec == Spec /\ Fairness

\* ------------------------------------------------------------------ claims

Held(t) == pc[t] \in {"view", "dropping"}

\* C1: the Drop of the view of a successful mapping issues exactly one unmap,
\* however the owning scope exits: never two, none before the Drop, and one
\* once the view is destroyed.
C1_ExactlyOneUnmap ==
    \A t \in Tasks :
        /\ unmaps[t] <= 1
        /\ pc[t] = "dropped" => unmaps[t] = 1
        /\ Held(t) => unmaps[t] = 0
        /\ unmaps[t] = 1 => result[t] = "Ok"

C1_Witness ==
    \E t \in Tasks :
        /\ pc[t] = "dropped"
        /\ result[t] = "Ok"
        /\ unmaps[t] = 1
        /\ lastExit = "unwind"

\* C2: in the teardown of a view the inner handle is finalized exactly once and
\* before the unmap: no unmap of a view whose inner handle is still live, and
\* no second finalization.
C2_InnerBeforeUnmap ==
    \A t \in Tasks :
        /\ innerDrops[t] <= 1
        /\ unmaps[t] > 0 => (innerDrops[t] = 1 /\ ~Live(t))
        /\ pc[t] = "dropped" => innerDrops[t] = 1
        /\ Live(t) => innerDrops[t] = 0

C2_Witness ==
    \E t \in Tasks :
        /\ pc[t] = "dropping"
        /\ view[t].inner = "finalized"
        /\ innerDrops[t] = 1
        /\ unmaps[t] = 0
        /\ devState = "Mapped"

\* C3: when the device reports a failure to the callback of a request, the
\* awaited operation resolves to exactly that cause and no view is constructed
\* for the request.
C3_FailurePropagates ==
    \A t \in Tasks :
        /\ (cb[t] = "fired" /\ outcome[t] \in Causes) =>
              /\ view[t] = NoView
              /\ pc[t] \notin {"view", "dropping", "dropped"}
              /\ result[t] \in {"none", outcome[t]}
              /\ pc[t] = "failed" => result[t] = outcome[t]
        /\ pc[t] = "failed" => (cb[t] = "fired" /\ outcome[t] \in Causes)

C3_Witness ==
    \E t \in Tasks :
        /\ pc[t] = "failed"
        /\ outcome[t] = "AlreadyMapped"
        /\ result[t] = "AlreadyMapped"
        /\ view[t] = NoView

\* C4: a mapping attempt registered while another mapping of the buffer is
\* pending or mapped never resolves to Ok and never gets a view; when it
\* resolves, it resolves to an error.
C4_SecondAttemptFails ==
    \A t \in Tasks :
        regState[t] \in {"Pending", "Mapped"} =>
            /\ result[t] # "Ok"
            /\ view[t] = NoView
            /\ pc[t] \notin {"view", "dropping", "dropped"}
            /\ pc[t] = "failed" => result[t] \in Causes

C4_Witness ==
    \E t, u \in Tasks :
        /\ t # u
        /\ Live(u)
        /\ regState[t] = "Mapped"
        /\ pc[t] = "failed"
        /\ result[t] = "AlreadyMapped"

\* C5: map/release cycles are independent: the Drop of a view leaves the
\* buffer Unmapped with no request recorded, and a request registered on the
\* Unmapped buffer, after however many cycles, is accepted and is never
\* rejected as AlreadyMapped.
DropStep(t) == pc[t] = "dropping" /\ pc'[t] = "dropped"

RegisterStep(t) == cb[t] = "none" /\ cb'[t] = "registered"

C6_ViewImpliesMappedAlways ==
    \A t \in Tasks :
        Held(t) => (devState = "Mapped" /\ cb[t] = "fired" /\ outcome[t] = "Ok")

\* C6 as amended: a view exists only after its own request completed
\* successfully, and while it is alive the buffer is Mapped for that request as
\* long as wgpu::Buffer::unmap was not called on the handle itself.
C6_ViewImpliesMapped ==
    \A t \in Tasks :
        Held(t) =>
            /\ cb[t] = "fired"
            /\ outcome[t] = "Ok"
            /\ result[t] = "Ok"
            /\ ~nativeUsed => (devState = "Mapped" /\ devReq = t)

C6_Witness ==
    \E t, u \in Tasks :
        /\ t # u
        /\ Live(t)
        /\ pc[u] = "awaiting"
        /\ devState = "Mapped"
        /\ ~nativeUsed

\* C7: the mapping state of the buffer changes only along Unmapped -> Pending
\* (a request is registered), Pending -> Mapped (the callback of the pending
\* request fires with Ok), Pending -> Unmapped (it fires with a failure) and
\* Mapped -> Unmapped (the Drop of a view); a request made meanwhile does not
\* replace the one the device holds.
CallbackStep(t, ok) ==
    /\ cb[t] = "registered"
    /\ cb'[t] = "fired"
    /\ (outcome'[t] = "Ok") = ok

C7_Step ==
    IF devState' = devState
      THEN devState = "Unmapped" \/ devReq' = devReq
      ELSE \/ /\ devState = "Unmapped" /\ devState' = "Pending"
              /\ \E t \in Tasks : RegisterStep(t) /\ devReq' = t
           \/ /\ devState = "Pending" /\ devState' = "Mapped"
              /\ devReq' = devReq
              /\ CallbackStep(devReq, TRUE)
           \/ /\ devState = "Pending" /\ devState' = "Unmapped"
              /\ CallbackStep(devReq, FALSE)
           \/ /\ devState = "Mapped" /\ devState' = "Unmapped"
              /\ \E t \in Tasks : DropStep(t)

C7_Transitions == [][C7_Step]_vars

C7_Witness ==
    /\ pc[1] = "failed"
    /\ result[1] = "DeviceLost"
    /\ pc[2] = "dropped"
    /\ devState = "Unmapped"

\* C8: a task abandoned before its callback fired stays abandoned: no view is
\* ever produced for its request, no unmap is issued on its behalf, and it
\* keeps no slice and no result, also after the device fires the callback.
C8_AbandonSafe ==
    /\ [](\A t \in Tasks :
            pc[t] = "abandoned" =>
                /\ view[t] = NoView
                /\ unmaps[t] = 0
                /\ innerDrops[t] = 0
                /\ result[t] = "none"
                /\ range[t] = NoRange
                /\ entry[t] = "none")
    /\ [][\A t \in Tasks : pc[t] = "abandoned" => pc'[t] = "abandoned"]_vars

C8_Witness ==
    \E t \in Tasks :
        /\ pc[t] = "abandoned"
        /\ cb[t] = "fired"
        /\ outcome[t] = "Ok"
        /\ devState = "Mapped"
        /\ unmaps[t] = 0

\* The step in which the awaited operation of task t resolves.
ResolveStep(t) == pc[t] = "awaiting" /\ pc'[t] \in {"view", "failed"}

HeldNext(t) == pc'[t] \in {"view", "dropping"}

\* C9 as stated: the operation resolves to Ok with a view of the requested
\* length or to an error, and either way the buffer is then Unmapped or Mapped
\* with exactly one view.
C9_Consistent ==
    \/ devState' = "Unmapped"
    \/ devState' = "Mapped" /\ Cardinality({u \in Tasks : HeldNext(u)}) = 1

C9_ResolveLeavesMappedOrUnmapped ==
    [][\A t \in Tasks :
          ResolveStep(t) =>
              \/ /\ result'[t] = "Ok"
                 /\ RangeLen(view'[t].range) = RangeLen(range[t])
                 /\ C9_Consistent
              \/ /\ result'[t] \in Causes
                 /\ C9_Consistent]_vars

\* C9 as amended: the operation resolves to Ok with a view of exactly the
\* requested range, the buffer Mapped for this request with that one view, or
\* to an error with no view and nothing held for this request by the device:
\* the buffer is then Unmapped, or Pending or Mapped for another request.
C9_ResolveConsistent ==
    [][\A t \in Tasks :
          ResolveStep(t) =>
              \/ /\ result'[t] = "Ok"
                 /\ view'[t].range = range[t]
                 /\ RangeLen(view'[t].range) = RangeLen(range[t])
                 /\ devState' = "Mapped"
                 /\ devReq' = t
                 /\ {u \in Tasks : HeldNext(u)} = {t}
              \/ /\ result'[t] \in Causes
                 /\ view'[t] = NoView
                 /\ devVars' = devVars
                 /\ devReq' # t
                 /\ devState' = "Unmapped" \/ devReq' \in Tasks \ {t}]_vars

C9_Witness ==
    \E t, u \in Tasks :
        /\ Live(t)
        /\ view[t].range = <<BufSize \div 4, BufSize \div 2>>
        /\ RangeLen(view[t].range) = BufSize \div 4
        /\ devReq = t
        /\ pc[u] = "failed"

\* C10: at most one mapping is pending or active at a time: never two
\* requests that the device accepted and that neither failed nor were
\* released, never two views, and a request that was in flight beside a live
\* view never succeeds.
Active(t) ==
    /\ regState[t] = "Unmapped"
    /\ outcome[t] \notin Causes
    /\ pc[t] # "dropped"

C10_AtMostOneMapping ==
    /\ Cardinality({t \in Tasks : Active(t)}) <= 1
    /\ Cardinality({t \in Tasks : Held(t)}) <= 1
    /\ \A t \in Tasks : overlap[t] => (result[t] # "Ok" /\ ~Held(t))

C10_Witness ==
    \E t, u \in Tasks :
        /\ t # u
        /\ Live(t)
        /\ overlap[u]
        /\ regState[u] = "Pending"
        /\ pc[u] = "failed"

\* C11: a slice starts at most one mapping operation and the layer never
\* retries: every operation registers exactly one callback with the bridge, and
\* after a failure nothing more is submitted to the device for it.
C11_OneShotNoRetry ==
    \A t \in Tasks :
        /\ regs[t] <= 1
        /\ pc[t] \in {"idle", "sliced"} => (regs[t] = 0 /\ cb[t] = "none")
        /\ pc[t] \notin {"idle", "sliced"} => regs[t] = 1
        /\ pc[t] = "failed" => (cb[t] = "fired" /\ devReq # t)

C11_Witness ==
    \E t \in Tasks :
        /\ pc[t] = "failed"
        /\ result[t] = "DeviceLost"
        /\ regs[t] = 1
        /\ devState = "Unmapped"

\* C12: the shared device handle is held once by the AsyncBuffer while it
\* exists, once by every slice and once by every registration in flight, so it
\* has a holder whenever a slice exists or a registration is in flight, also
\* after the AsyncBuffer was dropped.
Descriptors == {t \in Tasks : pc[t] \in {"sliced", "awaiting"}}

Registrations == {t \in Tasks : cb[t] = "registered"}

C12_HandleValid ==
    /\ holders = (IF bufAlive THEN 1 ELSE 0)
                   + Cardinality(Descriptors) + Cardinality(Registrations)
    /\ (Descriptors # {} \/ Registrations # {}) => holders >= 1

C12_Witness ==
    \E t \in Tasks :
        /\ ~bufAlive
        /\ pc[t] = "abandoned"
        /\ cb[t] = "registered"
        /\ holders = 1

\* C13: while a read view is alive, up to its destruction, the bytes of the
\* buffer are what they were when the view was constructed, whatever is read
\* through it.
C13_ReadViewKeepsBytes ==
    \A t \in Tasks :
        (Held(t) /\ view[t].kind = "View") => bytes = snap[t]

C13_Witness ==
    \E t \in Tasks :
        /\ pc[t] = "dropping"
        /\ view[t].kind = "View"
        /\ snap[t] = 255
        /\ seen = 255
        /\ bytes = 255

\* The step of AsyncBuffer::map_async / map_async_mut up to its await.
ViaBuffer(t) == pc[t] = "idle" /\ pc'[t] = "awaiting"

\* What AsyncBuffer::slice(r) followed by the slice's entry point e leaves:
\* the slice of r, one registration in mode ModeOf(e), nothing else.
SliceThenMap(t, r, e) ==
    /\ range'[t] = SliceOf(r)
    /\ entry'[t] = e
    /\ cb'[t] = "registered"
    /\ regs'[t] = regs[t] + 1
    /\ holders' = RegistrationHolds(CloneDevice(holders))
    /\ IF DevAccepts
         THEN devState' = "Pending" /\ devReq' = t /\ devMode' = ModeOf(e)
         ELSE UNCHANGED devVars
    /\ UNCHANGED <<outcome, result, view, innerDrops, unmaps, bytes>>

\* The result of an operation as a function of what was asked and of the
\* device's outcome, whichever path was taken.
SameResult(t) ==
    IF outcome[t] = "Ok"
      THEN /\ result'[t] = "Ok"
           /\ view'[t] = [kind |-> ViewKind(asked[t].entry),
                          range |-> asked[t].range, inner |-> "live"]
      ELSE /\ result'[t] = outcome[t]
           /\ view'[t] = NoView

\* C14: AsyncBuffer::map_async(range) / map_async_mut(range) behave as
\* slice(range) followed by the slice's map_async / map_async_mut: the same
\* slice, the same single registration with the device in the same mode, and
\* the same result for the same outcome of the device.
C14_BufferAsSlice ==
    /\ [][\A t \in Tasks :
            /\ ViaBuffer(t) =>
                  SliceThenMap(t, asked'[t].range, asked'[t].entry)
            /\ ResolveStep(t) => SameResult(t)]_vars
    /\ [](\A t \in Tasks :
            pc[t] = "awaiting" =>
                (range[t] = asked[t].range /\ entry[t] = asked[t].entry))

C14_Witness ==
    \E t \in Tasks :
        /\ asked[t].via = "buffer"
        /\ asked[t].range = <<BufSize \div 4, BufSize \div 2>>
        /\ asked[t].entry = "map_async_mut"
        /\ pc[t] = "awaiting"
        /\ cb[t] = "registered"
        /\ devState = "Pending"
        /\ devReq = t
        /\ devMode = "Write"

\* The callback of task t is invoked in this step.
FireStep(t) == cb[t] # "fired" /\ cb'[t] = "fired"

\* The awaiting task resumes in this step: its future returns or panics.
ResumeStep(t) == pc[t] = "awaiting" /\ pc'[t] \in {"view", "failed", "panicked"}

\* C15: for every mapping operation the order is registration, completion
\* callback, resolution: a callback is invoked only after its registration,
\* and the task resumes, and constructs a view, only after its callback was
\* invoked.
C15_RegisterFireResolve ==
    /\ [][\A t \in Tasks :
            /\ FireStep(t) => (cb[t] = "registered" /\ regs[t] = 1)
            /\ RegisterStep(t) => (regs[t] = 0 /\ outcome[t] = "none")
            /\ ResumeStep(t) => (cb[t] = "fired" /\ outcome[t] # "none")
            /\ (~Held(t) /\ HeldNext(t)) => (cb[t] = "fired" /\ outcome[t] = "Ok")]_vars
    /\ [](\A t \in Tasks :
            /\ (result[t] # "none" \/ view[t] # NoView) => cb[t] = "fired"
            /\ cb[t] # "none" => regs[t] = 1
            /\ (outcome[t] # "none") = (cb[t] = "fired"))

C15_Witness ==
    \E t, u \in Tasks :
        /\ pc[t] = "view" /\ cb[t] = "fired" /\ regs[t] = 1
        /\ pc[u] = "awaiting" /\ cb[u] = "registered" /\ result[u] = "none"

\* The entry point, the mode and the kind of view that go together.
Matched(e, m, k) ==
    \/ e = "map_async" /\ m = "Read" /\ k = "View"
    \/ e = "map_async_mut" /\ m = "Write" /\ k = "ViewMut"

\* C16: the mode requested from the device matches the entry point and the
\* kind of the view produced: map_async requests read mode and yields a
\* read-only view, map_async_mut requests write mode and yields a mutable
\* view, never crossed.
C16_ModeMatchesEntry ==
    /\ [][\A t \in Tasks :
            /\ (RegisterStep(t) /\ DevAccepts) =>
                  \E k \in {"View", "ViewMut"} :
                      Matched(asked'[t].entry, devMode', k)
            /\ (~Held(t) /\ HeldNext(t)) =>
                  Matched(asked[t].entry, devMode, view'[t].kind)]_vars
    /\ [](\A t \in Tasks :
            /\ (pc[t] = "awaiting" /\ devReq = t) =>
                  \E k \in {"View", "ViewMut"} :
                      Matched(asked[t].entry, devMode, k)
            /\ (Held(t) /\ devReq = t) =>
                  \E e \in Entries : Matched(e, devMode, view[t].kind))

C16_Witness ==
    \E t, u \in Tasks :
        /\ pc[t] = "dropped"
        /\ Held(u)
        /\ view[u].kind = "ViewMut"
        /\ devReq = u
        /\ devMode = "Write"
        /\ devState = "Mapped"

\* AsyncBuffer::slice returns in this step.
SliceStep(t) == pc[t] = "idle" /\ pc'[t] = "sliced"

\* C17: slice(range) has no effect on the mapping protocol: in any state of
\* the buffer, with or without a live view, it leaves the mapping state, the
\* bytes and every view unchanged and submits nothing to the device; a request
\* is submitted only when map_async / map_async_mut is awaited.
C17_SliceNoEffect ==
    /\ [][\A t \in Tasks :
            /\ SliceStep(t) =>
                  UNCHANGED <<devVars, bytes, view, cb, regs, outcome, result,
                              unmaps, regState>>
            /\ RegisterStep(t) =>
                  (pc[t] \in {"idle", "sliced"} /\ pc'[t] = "awaiting")]_vars
    /\ [](\A t \in Tasks : pc[t] = "sliced" => (cb[t] = "none" /\ regs[t] = 0))

C17_Witness ==
    \E t, u \in Tasks :
        /\ pc[t] = "sliced"
        /\ range[t] = <<0, BufSize>>
        /\ Live(u)
        /\ view[u].range = <<0, BufSize \div 4>>
        /\ devState = "Mapped"

\* The unmaps the views of tasks 1..n have issued.
RECURSIVE UnmapsUpTo(_)
UnmapsUpTo(n) == IF n = 0 THEN 0 ELSE unmaps[n] + UnmapsUpTo(n - 1)

\* The requests the device has completed successfully.
Completed == {t \in Tasks : outcome[t] = "Ok"}

\* The operation of task t resolves to an error in this step.
FailStep(t) == pc[t] = "awaiting" /\ pc'[t] = "failed"

\* C18: the unmaps issued never exceed the requests completed successfully;
\* a failed or rejected attempt issues none, and leaves the mapping another
\* task's view holds as it is.
C18_UnmapsBounded ==
    /\ [](/\ UnmapsUpTo(NTasks) <= Cardinality(Completed)
          /\ \A t \in Tasks : t \notin Completed => unmaps[t] = 0)
    /\ [][\A t \in Tasks :
            FailStep(t) => UNCHANGED <<devVars, unmaps, view>>]_vars

C18_Witness ==
    \E t, u \in Tasks :
        /\ pc[t] = "failed"
        /\ overlap[t]
        /\ unmaps[t] = 0
        /\ Live(u)
        /\ devState = "Mapped"
        /\ devReq = u
        /\ UnmapsUpTo(NTasks) = 0

\* C19 as stated: whenever the buffer is Mapped, a view exists or a task that
\* was not abandoned is about to construct one.
C19_MappedHasOwner ==
    devState = "Mapped" =>
        \E t \in Tasks : Held(t) \/ (pc[t] = "awaiting" /\ devReq = t)

\* The futures dropped while their request was with the device.
Dropped == {t \in Tasks : pc[t] \in {"abandoned", "discarded"}}

\* C19: a Mapped buffer has the view of the completed request, or the task
\* about to construct it, unless the future of that request was dropped: then
\* nothing of this layer unmaps it and the buffer stays Mapped.  Every view
\* that exists is followed by the unmap of its buffer.
C19_MappedOwnedUnlessDropped ==
    /\ [](devState = "Mapped" =>
            /\ devReq \in Tasks
            /\ outcome[devReq] = "Ok"
            /\ \/ Held(devReq)
               \/ pc[devReq] = "awaiting"
               \/ devReq \in Dropped)
    /\ [][(devState = "Mapped" /\ devReq \in Dropped) =>
             (devState' = "Mapped" /\ devReq' = devReq)]_vars
    /\ \A t \in Tasks : Held(t) ~> (pc[t] = "dropped" /\ unmaps[t] = 1)

C19_Witness ==
    \E t \in Tasks :
        /\ pc[t] = "abandoned"
        /\ outcome[t] = "Ok"
        /\ devState = "Mapped"
        /\ devReq = t
        /\ \A u \in Tasks : ~Held(u) /\ pc[u] # "awaiting"

\* C20: every mapping operation whose future is not dropped resolves, to a
\* view or to an error, once the device invokes the callback and the task is
\* polled: there is nothing else it waits for.
C20_EventuallyResolves ==
    \A t \in Tasks :
        pc[t] = "awaiting" ~> (pc[t] \in {"view", "failed"} \/ t \in Dropped)

C20_Witness ==
    \E t, u \in Tasks :
        /\ pc[t] = "failed" /\ result[t] \in Causes
        /\ pc[u] = "view" /\ result[u] = "Ok"

TypeOK ==
    /\ pc \in [Tasks -> {"idle", "sliced", "awaiting", "view", "dropping",
                         "dropped", "failed", "abandoned", "discarded",
                         "panicked"}]
    /\ range \in [Tasks -> Ranges \cup {NoRange}]
    /\ entry \in [Tasks -> Entries \cup {"none"}]
    /\ cb \in [Tasks -> {"none", "registered", "fired"}]
    /\ outcome \in [Tasks -> {"none", "Ok"} \cup Causes]
    /\ result \in [Tasks -> {"none", "Ok"} \cup Causes]
    /\ lastExit \in ExitKinds \cup {"none"}
    /\ innerDrops \in [Tasks -> 0..2]
    /\ unmaps \in [Tasks -> 0..2]
    /\ devState \in {"Unmapped", "Pending", "Mapped"}
    /\ devReq \in Tasks \cup {0}
    /\ devMode \in Modes \cup {"None"}
    /\ regs \in [Tasks -> 0..2]
    /\ holders \in 0..(2 * NTasks + 1)
    /\ bufAlive \in BOOLEAN
    /\ bytes \in ByteVals
    /\ snap \in [Tasks -> ByteVals \cup {-1}]
    /\ seen \in ByteVals
    /\ asked \in [Tasks -> Asks]
====
